---- MODULE Spec2Model ----
(***************************************************************************)
(* Model of strands_agents_builder/strands.py: main() with its one-shot    *)
(* path and its interactive read loop, and of load_extra_tools().          *)
(*                                                                         *)
(* A Python str is a sequence of one-character strings.  Every call into   *)
(* a library either returns or raises; what it raises is classified by the *)
(* except clauses of main that can see it.                                 *)
(***************************************************************************)
EXTENDS Integers, Sequences, FiniteSets, TLC

\* ------------------------------------------------------------------ bounds
MaxLen == 3         \* longest input line drawn from the whole alphabet
MaxReads == 2       \* calls of get_user_input in one run
MaxArgs == 2        \* positional query arguments on the command line
MaxLines == 2       \* lines of the .tools file
MaxEnvLen == 3      \* characters of STRANDS_EXTRA_TOOLS

\* ----------------------------------------------------------------- strings
Alphabet == {"!", ">", " ", "a"}
Whitespace == {" ", "\t"}

RECURSIVE SeqsUpTo(_, _)
SeqsUpTo(S, n) ==
    IF n = 0 THEN {<<>>}
    ELSE LET shorter == SeqsUpTo(S, n - 1)
         IN  shorter \cup {Append(s, c) : s \in {t \in shorter : Len(t) = n - 1}, c \in S}

\* str.lower(), on the characters the model uses
LowerChar(c) ==
    CASE c = "E" -> "e" [] c = "X" -> "x" [] c = "I" -> "i" [] c = "T" -> "t"
      [] c = "Q" -> "q" [] c = "U" -> "u" [] OTHER -> c
Lower(s) == [i \in 1..Len(s) |-> LowerChar(s[i])]

\* str.startswith(c) for a one-character prefix
StartsWith(s, c) == Len(s) >= 1 /\ s[1] = c

\* s[1:]
DropFirst(s) == SubSeq(s, 2, Len(s))

\* str.strip()
RECURSIVE LStrip(_)
LStrip(s) == IF s # <<>> /\ s[1] \in Whitespace THEN LStrip(DropFirst(s)) ELSE s
RECURSIVE RStrip(_)
RStrip(s) ==
    IF s # <<>> /\ s[Len(s)] \in Whitespace THEN RStrip(SubSeq(s, 1, Len(s) - 1)) ELSE s
Strip(s) == RStrip(LStrip(s))

\* " ".join(words)
RECURSIVE Join(_)
Join(words) ==
    IF words = <<>> THEN <<>>
    ELSE IF Len(words) = 1 THEN words[1]
    ELSE words[1] \o <<" ">> \o Join(Tail(words))

ExitWords == {<<"e", "x", "i", "t">>, <<"q", "u", "i", "t">>}

\* Lines get_user_input can return: every line over Alphabet up to MaxLen,
\* and lines around the two exit words and the two prefixes.
KeywordLines ==
    { <<"e", "x", "i", "t">>, <<"E", "X", "I", "T">>, <<"E", "x", "i", "t">>,
      <<"q", "u", "i", "t">>, <<"Q", "u", "I", "t">>,
      <<" ", "e", "x", "i", "t">>, <<"e", "x", "i", "t", " ">>,
      <<"!", "e", "x", "i", "t">>, <<">", "q", "u", "i", "t">>,
      <<"!", " ", "a", " ">>, <<">", " ", "a", "\t">>, <<"\t">>, <<" ", "\t">> }
Inputs == SeqsUpTo(Alphabet, MaxLen) \cup KeywordLines

\* user_input before get_user_input has returned in this iteration
NoLine == <<"<unbound>">>

\* Positional arguments: argparse gives a list of str
ArgWords == {<<>>, <<"a">>, <<"!", "a">>}
QueryArgs == SeqsUpTo(ArgWords, MaxArgs)

\* --kb and STRANDS_KNOWLEDGE_BASE_ID: absent (None), empty, or an ID
None == "None"
KbArgValues == {None, "", "kbA"}
KbEnvValues == {None, "", "kbE"}
Truthy(v) == v \notin {None, ""}

\* line 121: args.knowledge_base_id or os.getenv(...)
KnowledgeBaseIdEnvFirst(arg, env) == IF Truthy(env) THEN env ELSE arg
KnowledgeBaseId(arg, env) == IF Truthy(arg) THEN arg ELSE env

\* line 180: if args.query
OneShotModeOnText(args) == Join(args) # <<>>
OneShotMode(args) == args # <<>>

\* How a library call ends: it returns, or it raises
\*   exc  an Exception other than EOFError
\*   eof  EOFError (a subclass of Exception)
\*   kbi  KeyboardInterrupt (a BaseException, not an Exception)
\*   base another BaseException that is no Exception (SystemExit, ...)
Raised == {"exc", "eof", "kbi", "base"}
Outcomes == {"ok"} \cup Raised
\* agent.tool.welcome returns a result whose status is success or not
WelcomeOutcomes == {"ok", "error"} \cup Raised

VARIABLES
    pc,                 \* position in main
    query,              \* args.query
    kb_arg,             \* args.knowledge_base_id
    kb_env,             \* os.getenv("STRANDS_KNOWLEDGE_BASE_ID")
    knowledge_base_id,
    user_input,         \* the line read in the current loop iteration
    calls,              \* library calls made for the current line (or one-shot query)
    out,                \* what was printed or rendered for the current line
    reads,              \* calls of get_user_input so far
    welcomes,           \* render_welcome_message calls so far
    goodbyes            \* render_goodbye_message calls so far

mvars == <<pc, query, kb_arg, kb_env, knowledge_base_id, user_input, calls, out,
           reads, welcomes, goodbyes>>

\* load_extra_tools()
NoFile == [exists |-> FALSE, lines |-> <<>>]
Unset == [set |-> FALSE, value |-> <<>>]

VARIABLES
    tpc,                \* position in load_extra_tools
    tools_file,         \* whether .tools exists, and its lines
    extra_env,          \* os.getenv("STRANDS_EXTRA_TOOLS")
    pending,            \* lines or entries still to be looked at
    tools,              \* the list that is returned
    results             \* per import tried, in order: TRUE when it returned a tool

tvars == <<tpc, tools_file, extra_env, pending, tools, results>>

vars == <<mvars, tvars>>

Call(fn, text, kb, res) == [fn |-> fn, text |-> text, kb |-> kb, res |-> res]

Init ==
    /\ pc = "parse"
    /\ query \in QueryArgs
    /\ kb_arg \in KbArgValues
    /\ kb_env \in KbEnvValues
    /\ knowledge_base_id = None
    /\ user_input = NoLine
    /\ calls = <<>>
    /\ out = <<>>
    /\ reads = 0
    /\ welcomes = 0
    /\ goodbyes = 0
    /\ tpc = "idle"
    /\ tools_file = NoFile
    /\ extra_env = Unset
    /\ pending = <<>>
    /\ tools = <<>>
    /\ results = <<>>

\* line 121 and the branch of line 180
ParseArgs ==
    /\ pc = "parse"
    /\ knowledge_base_id' = KnowledgeBaseId(kb_arg, kb_env)
    /\ pc' = IF OneShotMode(query) THEN "oneshot" ELSE "startup_welcome"
    /\ UNCHANGED <<query, kb_arg, kb_env, user_input, calls, out, reads, welcomes, goodbyes>>
    /\ UNCHANGED tvars

\* ------------------------------------------------------------ one-shot path
QueryText == Join(query)                                   \* line 181

\* An exception on the one-shot path is caught nowhere: main ends with it
Uncaught(r) == r \in Raised

\* lines 184-186
OneShotRetrieve ==
    /\ pc = "oneshot"
    /\ Truthy(knowledge_base_id)
    /\ \E r \in Outcomes :
        /\ calls' = Append(calls, Call("retrieve", QueryText, knowledge_base_id, r))
        /\ pc' = IF Uncaught(r) THEN "crashed" ELSE "oneshot_agent"
    /\ UNCHANGED <<query, kb_arg, kb_env, knowledge_base_id, user_input, out, reads,
                   welcomes, goodbyes>>
    /\ UNCHANGED tvars

\* line 188, and the test of line 190
OneShotAgent ==
    /\ \/ pc = "oneshot_agent"
       \/ pc = "oneshot" /\ ~Truthy(knowledge_base_id)
    /\ \E r \in Outcomes :
        /\ calls' = Append(calls, Call("agent", QueryText, None, r))
        /\ pc' = IF Uncaught(r) THEN "crashed"
                 ELSE IF Truthy(knowledge_base_id) THEN "oneshot_store" ELSE "done"
    /\ UNCHANGED <<query, kb_arg, kb_env, knowledge_base_id, user_input, out, reads,
                   welcomes, goodbyes>>
    /\ UNCHANGED tvars

\* lines 190-192
OneShotStore ==
    /\ pc = "oneshot_store"
    /\ \E r \in Outcomes :
        /\ calls' = Append(calls, Call("store", QueryText, knowledge_base_id, r))
        /\ pc' = IF Uncaught(r) THEN "crashed" ELSE "done"
    /\ UNCHANGED <<query, kb_arg, kb_env, knowledge_base_id, user_input, out, reads,
                   welcomes, goodbyes>>
    /\ UNCHANGED tvars

\* --------------------------------------------------------- interactive path
\* lines 196-200: the welcome text at startup, outside the loop's try
StartupWelcome ==
    /\ pc = "startup_welcome"
    /\ \E w \in WelcomeOutcomes :
        /\ calls' = Append(calls, Call("welcome", <<>>, None, w))
        /\ welcomes' = IF w = "ok" THEN welcomes + 1 ELSE welcomes
        /\ out' = IF w = "ok" THEN Append(out, "welcome") ELSE out
        /\ pc' = IF w \in Raised THEN "crashed" ELSE "read"
    /\ UNCHANGED <<query, kb_arg, kb_env, knowledge_base_id, user_input, reads, goodbyes>>
    /\ UNCHANGED tvars

\* the loop's except clauses, were they to try the failed work again
OuterExceptRetries(r, printed) ==
    /\ pc' = CASE r \in {"kbi", "eof"} -> "done"
               [] r = "exc" -> pc
               [] OTHER -> "crashed"
    /\ out' = CASE r \in {"kbi", "eof"} -> Append(printed, "goodbye")
                [] r = "exc" -> Append(printed, "Error")
                [] OTHER -> printed
    /\ goodbyes' = IF r \in {"kbi", "eof"} THEN goodbyes + 1 ELSE goodbyes

\* the loop's except clauses, were the last one to leave the loop
OuterExceptBreaks(r, printed) ==
    /\ pc' = CASE r \in {"kbi", "eof", "exc"} -> "done"
               [] OTHER -> "crashed"
    /\ out' = CASE r \in {"kbi", "eof"} -> Append(printed, "goodbye")
                [] r = "exc" -> Append(printed, "Error")
                [] OTHER -> printed
    /\ goodbyes' = IF r \in {"kbi", "eof"} THEN goodbyes + 1 ELSE goodbyes

\* lines 254-258: the except clauses of the loop's try, given what was
\* raised (r) and what the iteration has printed so far (printed)
OuterExcept(r, printed) ==
    /\ pc' = CASE r \in {"kbi", "eof"} -> "done"
               [] r = "exc" -> "read"
               [] OTHER -> "crashed"
    /\ out' = CASE r \in {"kbi", "eof"} -> Append(printed, "goodbye")
                [] r = "exc" -> Append(printed, "Error")
                [] OTHER -> printed
    /\ goodbyes' = IF r \in {"kbi", "eof"} THEN goodbyes + 1 ELSE goodbyes

\* a bare except in the two prefix branches
InnerCaughtBare(r) == r \in Raised
\* lines 220 and 231: except Exception, inside the two prefix branches
InnerCaught(r) == r \in {"exc", "eof"}

\* line 203
GetUserInput ==
    /\ pc = "read"
    /\ reads < MaxReads
    /\ reads' = reads + 1
    /\ \/ \E line \in Inputs :
            /\ user_input' = line
            /\ calls' = <<Call("get_user_input", <<>>, None, "ok")>>
            /\ pc' = "dispatch"
            /\ out' = <<>>
            /\ UNCHANGED goodbyes
       \/ \E r \in Raised :
            /\ user_input' = NoLine
            /\ calls' = <<Call("get_user_input", <<>>, None, r)>>
            /\ OuterExcept(r, <<>>)
    /\ UNCHANGED <<query, kb_arg, kb_env, knowledge_base_id, welcomes>>
    /\ UNCHANGED tvars

IsExitStripped(line) == Lower(Strip(line)) \in ExitWords
IsExit(line) == Lower(line) \in ExitWords                  \* line 204
IsShell(line) == ~IsExit(line) /\ StartsWith(line, "!")    \* line 207
IsPython(line) ==                                          \* line 224
    ~IsExit(line) /\ ~StartsWith(line, "!") /\ StartsWith(line, ">")
Falls(line) == ~IsExit(line) /\ ~IsShell(line) /\ ~IsPython(line)
IsEmpty(line) == line = <<>>
IsBlank(line) == Strip(line) = <<>>                        \* line 235
ShellCommandOf(line) == DropFirst(line)                    \* line 208
PythonCodeUnstripped(line) == DropFirst(line)
PythonCodeOf(line) == Strip(DropFirst(line))               \* line 225

\* lines 204-206
ExitCommand ==
    /\ pc = "dispatch"
    /\ IsExit(user_input)
    /\ goodbyes' = goodbyes + 1
    /\ out' = Append(out, "goodbye")
    /\ pc' = "done"
    /\ UNCHANGED <<query, kb_arg, kb_env, knowledge_base_id, user_input, calls, reads,
                   welcomes>>
    /\ UNCHANGED tvars

\* lines 207-222
ShellCommand ==
    /\ pc = "dispatch"
    /\ IsShell(user_input)
    /\ \E r \in Outcomes :
        LET shell_command == ShellCommandOf(user_input)
            echoed == Append(out, "$")
        IN  /\ calls' = Append(calls, Call("shell", shell_command, None, r))
            /\ IF r = "ok"
               THEN pc' = "read" /\ out' = Append(echoed, "newline") /\ UNCHANGED goodbyes
               ELSE IF InnerCaught(r)
               THEN pc' = "read" /\ out' = Append(echoed, "ShellError") /\ UNCHANGED goodbyes
               ELSE OuterExcept(r, echoed)
    /\ UNCHANGED <<query, kb_arg, kb_env, knowledge_base_id, user_input, reads, welcomes>>
    /\ UNCHANGED tvars

\* lines 224-233
PythonCode ==
    /\ pc = "dispatch"
    /\ IsPython(user_input)
    /\ \E r \in Outcomes :
        LET python_code == PythonCodeOf(user_input)
        IN  /\ calls' = Append(calls, Call("python_repl", python_code, None, r))
            /\ IF r = "ok"
               THEN pc' = "read" /\ out' = Append(out, "newline") /\ UNCHANGED goodbyes
               ELSE IF InnerCaught(r)
               THEN pc' = "read" /\ out' = Append(out, "PythonError") /\ UNCHANGED goodbyes
               ELSE OuterExcept(r, out)
    /\ UNCHANGED <<query, kb_arg, kb_env, knowledge_base_id, user_input, reads, welcomes>>
    /\ UNCHANGED tvars

\* line 235 false: the iteration ends
BlankInput ==
    /\ pc = "dispatch"
    /\ Falls(user_input)
    /\ IsBlank(user_input)
    /\ pc' = "read"
    /\ UNCHANGED <<query, kb_arg, kb_env, knowledge_base_id, user_input, calls, out,
                   reads, welcomes, goodbyes>>
    /\ UNCHANGED tvars

\* lines 235-238
Retrieve ==
    /\ pc = "dispatch"
    /\ Falls(user_input)
    /\ ~IsBlank(user_input)
    /\ Truthy(knowledge_base_id)
    /\ \E r \in Outcomes :
        /\ calls' = Append(calls, Call("retrieve", user_input, knowledge_base_id, r))
        /\ IF r = "ok"
           THEN pc' = "welcome" /\ UNCHANGED <<out, goodbyes>>
           ELSE OuterExcept(r, out)
    /\ UNCHANGED <<query, kb_arg, kb_env, knowledge_base_id, user_input, reads, welcomes>>
    /\ UNCHANGED tvars

\* lines 240, 242-245
Welcome ==
    /\ \/ pc = "welcome"
       \/ /\ pc = "dispatch"
          /\ Falls(user_input)
          /\ ~IsBlank(user_input)
          /\ ~Truthy(knowledge_base_id)
    /\ \E w \in WelcomeOutcomes :
        /\ calls' = Append(calls, Call("welcome", <<>>, None, w))
        /\ IF w \in Raised
           THEN OuterExcept(w, out)
           ELSE pc' = "load_prompt" /\ UNCHANGED <<out, goodbyes>>
    /\ UNCHANGED <<query, kb_arg, kb_env, knowledge_base_id, user_input, reads, welcomes>>
    /\ UNCHANGED tvars

\* line 241
LoadSystemPrompt ==
    /\ pc = "load_prompt"
    /\ \E r \in Outcomes :
        /\ calls' = Append(calls, Call("load_system_prompt", <<>>, None, r))
        /\ IF r = "ok"
           THEN pc' = "agent" /\ UNCHANGED <<out, goodbyes>>
           ELSE OuterExcept(r, out)
    /\ UNCHANGED <<query, kb_arg, kb_env, knowledge_base_id, user_input, reads, welcomes>>
    /\ UNCHANGED tvars

\* lines 248-251
AgentCall ==
    /\ pc = "agent"
    /\ \E r \in Outcomes :
        /\ calls' = Append(calls, Call("agent", user_input, None, r))
        /\ IF r = "ok"
           THEN /\ pc' = IF Truthy(knowledge_base_id) THEN "store" ELSE "read"
                /\ UNCHANGED <<out, goodbyes>>
           ELSE OuterExcept(r, out)
    /\ UNCHANGED <<query, kb_arg, kb_env, knowledge_base_id, user_input, reads, welcomes>>
    /\ UNCHANGED tvars

\* lines 251-253
Store ==
    /\ pc = "store"
    /\ \E r \in Outcomes :
        /\ calls' = Append(calls, Call("store", user_input, knowledge_base_id, r))
        /\ IF r = "ok"
           THEN pc' = "read" /\ UNCHANGED <<out, goodbyes>>
           ELSE OuterExcept(r, out)
    /\ UNCHANGED <<query, kb_arg, kb_env, knowledge_base_id, user_input, reads, welcomes>>
    /\ UNCHANGED tvars

Next ==
    \/ ParseArgs
    \/ OneShotRetrieve
    \/ OneShotAgent
    \/ OneShotStore
    \/ StartupWelcome
    \/ GetUserInput
    \/ ExitCommand
    \/ ShellCommand
    \/ PythonCode
    \/ BlankInput
    \/ Retrieve
    \/ Welcome
    \/ LoadSystemPrompt
    \/ AgentCall
    \/ Store

Spec == Init /\ [][Next]_vars

\* --------------------------------------------------------- load_extra_tools
\* The file's lines, and the values of STRANDS_EXTRA_TOOLS, the loader is run on
ToolLines == {<<>>, <<" ">>, <<"#", "a">>, <<"a">>, <<" ", "b">>}
ToolsFiles ==
    {NoFile} \cup {[exists |-> TRUE, lines |-> l] : l \in SeqsUpTo(ToolLines, MaxLines)}
EnvAlphabet == {"a", ","}
EnvValues ==
    {Unset} \cup {[set |-> TRUE, value |-> v] : v \in SeqsUpTo(EnvAlphabet, MaxEnvLen) \ {<<>>}}

\* value.split(",")
RECURSIVE Split(_)
Split(value) ==
    IF \A i \in 1..Len(value) : value[i] # ","
    THEN <<value>>
    ELSE LET k == CHOOSE i \in 1..Len(value) :
                      value[i] = "," /\ \A j \in 1..(i - 1) : value[j] # ","
         IN  <<SubSeq(value, 1, k - 1)>> \o Split(SubSeq(value, k + 1, Len(value)))

\* a line of .tools that names a tool: not blank, not a # comment
IsToolLineNoComments(line) == Strip(line) # <<>>
IsToolLine(line) == Strip(line) # <<>> /\ ~StartsWith(Strip(line), "#")

\* the list after one import: a failed import adds nothing
ImportedKeepsFailures(list, name, ok) == Append(list, IF ok THEN name ELSE <<"?">>)
Imported(list, name, ok) == IF ok THEN Append(list, name) ELSE list

InitTools ==
    /\ pc = "parse"
    /\ query = <<>>
    /\ kb_arg = None
    /\ kb_env = None
    /\ knowledge_base_id = None
    /\ user_input = NoLine
    /\ calls = <<>>
    /\ out = <<>>
    /\ reads = 0
    /\ welcomes = 0
    /\ goodbyes = 0
    /\ tpc = "start"
    /\ tools_file \in ToolsFiles
    /\ extra_env \in EnvValues
    /\ pending = <<>>
    /\ tools = <<>>
    /\ results = <<>>

\* the file is opened when it exists
OpenToolsFile ==
    /\ tpc = "start"
    /\ pending' = IF tools_file.exists THEN tools_file.lines ELSE <<>>
    /\ tpc' = "file"
    /\ UNCHANGED <<tools_file, extra_env, tools, results>>
    /\ UNCHANGED mvars

\* a blank line or a comment is passed over
SkipLine ==
    /\ tpc = "file"
    /\ pending # <<>>
    /\ ~IsToolLine(Head(pending))
    /\ pending' = Tail(pending)
    /\ UNCHANGED <<tpc, tools_file, extra_env, tools, results>>
    /\ UNCHANGED mvars

\* any other line is imported; the import returns the tool or raises
ImportLine ==
    /\ tpc = "file"
    /\ pending # <<>>
    /\ IsToolLine(Head(pending))
    /\ \E ok \in BOOLEAN :
        /\ tools' = Imported(tools, Strip(Head(pending)), ok)
        /\ results' = Append(results, ok)
    /\ pending' = Tail(pending)
    /\ UNCHANGED <<tpc, tools_file, extra_env>>
    /\ UNCHANGED mvars

\* after the file, the environment variable is split at its commas
ReadEnv ==
    /\ tpc = "file"
    /\ pending = <<>>
    /\ pending' = IF extra_env.set THEN Split(extra_env.value) ELSE <<>>
    /\ tpc' = "env"
    /\ UNCHANGED <<tools_file, extra_env, tools, results>>
    /\ UNCHANGED mvars

\* each entry is imported; the import returns the tool or raises
ImportEntry ==
    /\ tpc = "env"
    /\ pending # <<>>
    /\ \E ok \in BOOLEAN :
        /\ tools' = Imported(tools, Head(pending), ok)
        /\ results' = Append(results, ok)
    /\ pending' = Tail(pending)
    /\ UNCHANGED <<tpc, tools_file, extra_env>>
    /\ UNCHANGED mvars

ReturnTools ==
    /\ tpc = "env"
    /\ pending = <<>>
    /\ tpc' = "returned"
    /\ UNCHANGED <<tools_file, extra_env, pending, tools, results>>
    /\ UNCHANGED mvars

NextTools ==
    \/ OpenToolsFile
    \/ SkipLine
    \/ ImportLine
    \/ ReadEnv
    \/ ImportEntry
    \/ ReturnTools

SpecTools == InitTools /\ [][NextTools]_vars

\* ------------------------------------------------------------------ claims
FnsOf(fns) == {i \in 1..Len(calls) : calls[i].fn \in fns}
Interactive == reads > 0
HasLine == user_input # NoLine
\* the iteration that read user_input is over
IterationOver == Interactive /\ pc \in {"read", "done", "crashed"}
AllWhitespace(line) == \A i \in 1..Len(line) : line[i] \in Whitespace
\* code is line[1:] without the whitespace around it
IsStrippedRest(code, line) ==
    /\ code = <<>> \/ (code[1] \notin Whitespace /\ code[Len(code)] \notin Whitespace)
    /\ \E a \in 2..(Len(line) + 1) : \E b \in (a - 1)..Len(line) :
          /\ SubSeq(line, a, b) = code
          /\ \A k \in (2..(a - 1)) \cup ((b + 1)..Len(line)) : line[k] \in Whitespace

\* C1: a line starting with ! goes to the shell tool with the line minus its
\* first character as the command, a line starting with > goes to python_repl
\* with the line minus its first character, stripped, as the code; the agent
\* is not invoked for such a line, whether the tool returns or raises.
C1_PrefixDispatch ==
    /\ (HasLine /\ StartsWith(user_input, "!")) =>
          /\ FnsOf({"agent", "python_repl"}) = {}
          /\ IterationOver =>
                /\ Len(calls) = 2
                /\ calls[2].fn = "shell"
                /\ <<"!">> \o calls[2].text = user_input
    /\ (HasLine /\ StartsWith(user_input, ">")) =>
          /\ FnsOf({"agent", "shell"}) = {}
          /\ IterationOver =>
                /\ Len(calls) = 2
                /\ calls[2].fn = "python_repl"
                /\ IsStrippedRest(calls[2].text, user_input)

C1_Witness ==
    /\ pc = "read"
    /\ HasLine
    /\ StartsWith(user_input, ">")
    /\ Len(calls) = 2
    /\ calls[2].fn = "python_repl"
    /\ calls[2].res = "exc"
    /\ Len(calls[2].text) + 1 < Len(user_input)

\* C2 as stated: every line that does not start with ! or > is forwarded to
\* the agent, with the line as the query.
C2_Original ==
    (IterationOver /\ HasLine /\ ~StartsWith(user_input, "!") /\ ~StartsWith(user_input, ">"))
        => \E i \in 1..Len(calls) : calls[i].fn = "agent" /\ calls[i].text = user_input

\* C2 amended: a line that does not start with ! or >, is not exit or quit in
\* any letter case and is not blank is forwarded to the agent with the line as
\* the query, unless a call made for it before the agent call raises.
C2_Forwarded ==
    ( /\ IterationOver
      /\ HasLine
      /\ ~StartsWith(user_input, "!")
      /\ ~StartsWith(user_input, ">")
      /\ Lower(user_input) \notin ExitWords
      /\ ~AllWhitespace(user_input)
      /\ \A i \in FnsOf({"retrieve", "welcome", "load_system_prompt"}) :
            calls[i].res \notin Raised )
        => \E i \in 1..Len(calls) : calls[i].fn = "agent" /\ calls[i].text = user_input

C2_Witness ==
    /\ pc = "read"
    /\ HasLine
    /\ user_input = <<" ", "a", " ">>
    /\ \E i \in 1..Len(calls) : calls[i].fn = "agent" /\ calls[i].text = user_input

OneShotPcs == {"oneshot", "oneshot_agent", "oneshot_store"}
LoopPcs == {"read", "dispatch", "welcome", "load_prompt", "agent", "store"}
Ended == pc \in {"done", "crashed"}
\* text is the words with one space between neighbours
RECURSIVE OffsetOf(_, _)
OffsetOf(words, i) == IF i = 1 THEN 0 ELSE OffsetOf(words, i - 1) + Len(words[i - 1]) + 1
IsSpaceJoined(text, words) ==
    /\ Len(text) = OffsetOf(words, Len(words)) + Len(words[Len(words)])
    /\ \A i \in 1..Len(words) :
          /\ SubSeq(text, OffsetOf(words, i) + 1, OffsetOf(words, i) + Len(words[i])) = words[i]
          /\ i < Len(words) => text[OffsetOf(words, i) + Len(words[i]) + 1] = " "

C6_KnowledgeBase ==
    pc # "parse" =>
        /\ knowledge_base_id = (IF kb_arg \notin {None, ""} THEN kb_arg ELSE kb_env)
        /\ knowledge_base_id \notin {None, ""} =>
              /\ \A i \in FnsOf({"agent"}) :
                    \E j \in 1..(i - 1) :
                        /\ calls[j].fn = "retrieve"
                        /\ calls[j].text = calls[i].text
                        /\ calls[j].kb = knowledge_base_id
              /\ \A i \in FnsOf({"store"}) :
                    \E j \in 1..(i - 1) : calls[j].fn = "agent" /\ calls[j].res = "ok"
        /\ knowledge_base_id \in {None, ""} => FnsOf({"retrieve", "store"}) = {}

C6_Witness ==
    /\ Interactive
    /\ kb_arg = ""
    /\ knowledge_base_id = "kbE"
    /\ user_input = <<" ", "a">>
    /\ FnsOf({"store"}) # {}

\* C7: for one input line, and for the one-shot query, at most one call of the
\* shell tool, python_repl or the agent is made, also when it raises.
C7_NoRetry == Cardinality(FnsOf({"shell", "python_repl", "agent"})) <= 1

C7_Witness ==
    /\ pc = "read"
    /\ HasLine
    /\ \E i \in FnsOf({"agent"}) : calls[i].res = "exc"

RaisedIn(kinds) == \E i \in 1..Len(calls) : calls[i].res \in kinds

\* C8 as stated: the loop ends exactly when the line is exit or quit in any
\* letter case, or reading or processing the line raises KeyboardInterrupt or
\* EOFError; goodbye is then rendered exactly once and nothing runs after.
C8_Original ==
    (Interactive /\ pc \in {"read", "done"}) =>
        /\ pc = "done" <=>
              \/ HasLine /\ Lower(user_input) \in ExitWords
              \/ RaisedIn({"kbi", "eof"})
        /\ pc = "done" => goodbyes = 1 /\ ~ENABLED Next

\* C8 amended: the loop ends with goodbye exactly when the line is exit or quit
\* in any letter case, or reading or processing the line raises
\* KeyboardInterrupt, or something other than the shell or python_repl tool
\* raises EOFError; goodbye is then rendered exactly once and nothing runs
\* after.  No other line and no other Exception ends the loop.
C8_Termination ==
    (Interactive /\ pc \in {"read", "done"}) =>
        /\ pc = "done" <=>
              \/ HasLine /\ Lower(user_input) \in ExitWords
              \/ RaisedIn({"kbi"})
              \/ \E i \in 1..Len(calls) :
                    calls[i].res = "eof" /\ calls[i].fn \notin {"shell", "python_repl"}
        /\ pc = "done" => goodbyes = 1 /\ ~ENABLED Next
        /\ pc = "read" => goodbyes = 0

C8_Witness ==
    /\ pc = "read"
    /\ HasLine
    /\ \E i \in FnsOf({"shell"}) : calls[i].res = "eof"

\* C9: an Exception that is neither KeyboardInterrupt nor EOFError, raised
\* for an input line, leaves the loop running: the shell and python_repl
\* branches report it themselves, every other call's is reported as the
\* generic error, the next input is read, and when retrieve raised it the
\* agent is not invoked.
C9_OrdinaryException ==
    Interactive =>
        \A i \in 1..Len(calls) : calls[i].res = "exc" =>
            /\ i = Len(calls)
            /\ pc = "read"
            /\ goodbyes = 0
            /\ out # <<>>
            /\ out[Len(out)] = (CASE calls[i].fn = "shell" -> "ShellError"
                                  [] calls[i].fn = "python_repl" -> "PythonError"
                                  [] OTHER -> "Error")
            /\ reads < MaxReads => ENABLED GetUserInput
            /\ calls[i].fn = "retrieve" => FnsOf({"agent"}) = {}

C9_Witness ==
    /\ pc = "read"
    /\ \E i \in FnsOf({"retrieve"}) : calls[i].res = "exc"
    /\ out = <<"Error">>

\* C10: an empty or whitespace-only line has no effect: no tool, retrieve,
\* welcome, agent or store call, nothing rendered, and the next input is read.
C10_BlankLine ==
    (HasLine /\ AllWhitespace(user_input)) =>
        /\ Len(calls) = 1
        /\ out = <<>>
        /\ pc \in {"dispatch", "read"}
        /\ goodbyes = 0
        /\ (pc = "read" /\ reads < MaxReads) => ENABLED GetUserInput

C10_Witness ==
    /\ pc = "read"
    /\ user_input = <<" ", "\t">>
    /\ reads < MaxReads

NamingLines ==
    {i \in 1..Len(tools_file.lines) :
        /\ \E k \in 1..Len(tools_file.lines[i]) : tools_file.lines[i][k] \notin Whitespace
        /\ LStrip(tools_file.lines[i])[1] # "#"}
EnvEntries ==
    IF extra_env.set
    THEN Cardinality({i \in 1..Len(extra_env.value) : extra_env.value[i] = ","}) + 1
    ELSE 0
Wanted == Cardinality(NamingLines) + EnvEntries
Failed == {i \in 1..Len(results) : ~results[i]}

\* C3: when every import succeeds, the returned list has one tool for each
\* line of .tools that is neither blank nor a # comment and one for each
\* comma-separated entry of STRANDS_EXTRA_TOOLS; a missing file and an unset
\* variable contribute none.
C3_OneToolPerEntry ==
    (tpc = "returned" /\ Failed = {}) => Len(tools) = Wanted

C3_Witness ==
    /\ tpc = "returned"
    /\ Failed = {}
    /\ Len(tools_file.lines) > Cardinality(NamingLines)
    /\ Cardinality(NamingLines) > 0
    /\ EnvEntries > 1

\* C4: a failing import raises nothing out of load_extra_tools, contributes no
\* tool, and the entries after it are still processed; when every import fails
\* the result is the empty list.
C4_FailuresTolerated ==
    /\ tpc = "returned" =>
          /\ Len(results) = Wanted
          /\ Len(tools) = Wanted - Cardinality(Failed)
          /\ Cardinality(Failed) = Wanted => tools = <<>>
    /\ (tpc # "returned" /\ Failed # {}) => ENABLED NextTools

C4_Witness ==
    /\ tpc = "returned"
    /\ Len(results) = 3
    /\ ~results[1]
    /\ results[2]
    /\ ~results[3]
    /\ tools = <<<<"a">>>>
====
